---- MODULE Spec2Model ----
(***************************************************************************)
(* Model of accelerator (src/src/main.rs): the sensitivity curve `factor`  *)
(* and the event loop of `main` that accumulates relative motion per       *)
(* frame, scales it at SYN_REPORT and forwards everything else.            *)
(*                                                                         *)
(* f64 values are modelled as fixed-point numbers with Q steps per unit,   *)
(* every arithmetic operation rounding its exact result to the nearest     *)
(* step (ties to even), together with the three special values +inf, -inf  *)
(* and NaN and their IEEE-754 rules.  The sign of zero is not modelled: no *)
(* result of the program depends on it (dist is never -0.0).               *)
(***************************************************************************)
EXTENDS Integers, Sequences, FiniteSets, TLC

(***************************************************************************)
(* Bounds of the model.                                                    *)
(***************************************************************************)
\* Q == 100 * Prec steps per unit: the precision of the modelled f64.
Prec == 1
\* Axis events carry a value in -MaxVal .. MaxVal.
MaxVal == 2
\* Number of loop iterations (reads of the source) that are explored.
MaxReads == 4

Q == 100 * Prec

(***************************************************************************)
(* f64: values.                                                            *)
(***************************************************************************)
Fin(n) == [k |-> "fin", v |-> n]
NaN == [k |-> "nan", v |-> 0]
PosInf == [k |-> "inf", v |-> 1]
NegInf == [k |-> "inf", v |-> -1]

IsNaN(a) == a.k = "nan"
IsFin(a) == a.k = "fin"
IsInf(a) == a.k = "inf"

Abs(n) == IF n < 0 THEN -n ELSE n
Sign(n) == IF n < 0 THEN -1 ELSE IF n > 0 THEN 1 ELSE 0
InfOf(s) == IF s < 0 THEN NegInf ELSE PosInf

\* n / d for d > 0, rounded to the nearest integer, ties to even.
RoundDivPos(n, d) ==
    LET q == n \div d
        r == n % d
    IN  IF 2 * r > d \/ (2 * r = d /\ q % 2 = 1) THEN q + 1 ELSE q

\* n / d for d # 0, rounded to the nearest integer, ties to even.
RoundDiv(n, d) == IF d > 0 THEN RoundDivPos(n, d) ELSE RoundDivPos(-n, -d)

RECURSIVE SqrtSearch(_, _, _)
\* The largest r in lo .. hi with r * r <= n (lo * lo <= n is given).
SqrtSearch(n, lo, hi) ==
    IF lo >= hi THEN lo
    ELSE LET mid == (lo + hi + 1) \div 2
         IN  IF mid * mid <= n THEN SqrtSearch(n, mid, hi)
             ELSE SqrtSearch(n, lo, mid - 1)

\* sqrt(n) rounded to the nearest integer, n >= 0 (a tie cannot occur).
RoundSqrt(n) ==
    LET r == SqrtSearch(n, 0, 46340)
    IN  IF n > r * r + r THEN r + 1 ELSE r

(***************************************************************************)
(* f64: operations.                                                        *)
(***************************************************************************)
\* i32 as f64, i64 as f64: exact.
FromInt(i) == Fin(i * Q)

FNeg(a) == IF IsNaN(a) THEN NaN ELSE [k |-> a.k, v |-> -a.v]

FAdd(a, b) ==
    IF IsNaN(a) \/ IsNaN(b) THEN NaN
    ELSE IF IsInf(a) /\ IsInf(b) THEN (IF a.v = b.v THEN a ELSE NaN)
    ELSE IF IsInf(a) THEN a
    ELSE IF IsInf(b) THEN b
    ELSE Fin(a.v + b.v)

FSub(a, b) == FAdd(a, FNeg(b))

FMul(a, b) ==
    IF IsNaN(a) \/ IsNaN(b) THEN NaN
    ELSE IF IsInf(a) \/ IsInf(b)
         THEN (IF a.v = 0 \/ b.v = 0 THEN NaN ELSE InfOf(Sign(a.v) * Sign(b.v)))
    ELSE Fin(RoundDiv(a.v * b.v, Q))

FDiv(a, b) ==
    IF IsNaN(a) \/ IsNaN(b) THEN NaN
    ELSE IF IsInf(a) /\ IsInf(b) THEN NaN
    ELSE IF IsInf(a) THEN InfOf(a.v * (IF b.v < 0 THEN -1 ELSE 1))
    ELSE IF IsInf(b) THEN Fin(0)
    ELSE IF b.v = 0 THEN (IF a.v = 0 THEN NaN ELSE InfOf(a.v))
    ELSE Fin(RoundDiv(a.v * Q, b.v))

\* f64::sqrt
FSqrt(a) ==
    IF IsNaN(a) THEN NaN
    ELSE IF a.v < 0 THEN NaN
    ELSE IF IsInf(a) THEN PosInf
    ELSE Fin(RoundSqrt(a.v * Q))

\* a < b on f64: false when either side is NaN.
FLt(a, b) ==
    IF IsNaN(a) \/ IsNaN(b) THEN FALSE
    ELSE IF IsInf(a) THEN a.v < 0 /\ b # NegInf
    ELSE IF IsInf(b) THEN b.v > 0
    ELSE a.v < b.v

\* a <= b on f64: false when either side is NaN.
FLe(a, b) == ~IsNaN(a) /\ ~IsNaN(b) /\ (a = b \/ FLt(a, b))

\* a == b on f64: NaN equals nothing, itself included.
FEq(a, b) == ~IsNaN(a) /\ ~IsNaN(b) /\ a = b

\* f64::min: when one argument is NaN the other is returned.
FMin(a, b) ==
    IF IsNaN(a) THEN b
    ELSE IF IsNaN(b) THEN a
    ELSE IF FLt(b, a) THEN b ELSE a

\* f64::mul_add: a * b + c with one rounding.
MulAdd(a, b, c) ==
    IF IsFin(a) /\ IsFin(b) /\ IsFin(c)
    THEN Fin(RoundDiv(a.v * b.v + c.v * Q, Q))
    ELSE FAdd(FMul(a, b), c)

\* f64::round: to the nearest integer, halfway cases away from zero.
FRound(a) ==
    IF ~IsFin(a) THEN a
    ELSE IF a.v >= 0 THEN Fin(((2 * a.v + Q) \div (2 * Q)) * Q)
    ELSE Fin(-(((2 * (-a.v) + Q) \div (2 * Q)) * Q))

I32Max == 2147483647
I32Min == -I32Max - 1

\* f64 as i32: truncates, saturates at the i32 range, NaN becomes 0.
AsI32(a) ==
    IF IsNaN(a) THEN 0
    ELSE IF IsInf(a) THEN (IF a.v > 0 THEN I32Max ELSE I32Min)
    ELSE LET t == Sign(a.v) * (Abs(a.v) \div Q)
         IN  IF t > I32Max THEN I32Max ELSE IF t < I32Min THEN I32Min ELSE t

(***************************************************************************)
(* The sensitivity curve.                                                  *)
(***************************************************************************)
\* factor without the clamp at cap.
factorNoCap(sens_multiplier, accel, cap, offset, speed) ==
    IF FLt(speed, offset) THEN sens_multiplier
    ELSE FMul(sens_multiplier, MulAdd(accel, FSub(speed, offset), Fin(Q)))

\* factor with the operands of the subtraction exchanged.
factorSwapped(sens_multiplier, accel, cap, offset, speed) ==
    IF FLt(speed, offset) THEN sens_multiplier
    ELSE FMul(sens_multiplier,
              FMin(MulAdd(accel, FSub(offset, speed), Fin(Q)), cap))

\* factor with the flat region extended to speed == offset.
factorFlatAtOffset(sens_multiplier, accel, cap, offset, speed) ==
    IF FLe(speed, offset) THEN sens_multiplier
    ELSE FMul(sens_multiplier,
              FMin(MulAdd(accel, FSub(speed, offset), Fin(Q)), cap))

factor(sens_multiplier, accel, cap, offset, speed) ==
    IF FLt(speed, offset) THEN sens_multiplier
    ELSE FMul(sens_multiplier,
              FMin(MulAdd(accel, FSub(speed, offset), Fin(Q)), cap))

(***************************************************************************)
(* Inputs of the model: command line, events, outcomes of reads and writes.*)
(***************************************************************************)
\* Timestamps <<tv_sec, tv_usec>>, one millisecond apart.
Times == {<<0, 1000>>, <<0, 2000>>}
Values == ((-1) .. MaxVal) \ {0}
OtherCodes == {"BTN_LEFT"}
Codes == {"REL_X", "REL_Y", "SYN_REPORT"} \cup OtherCodes

\* InputEvent { time, event_code, value }
Events ==
    [time : Times, code : {"REL_X", "REL_Y"}, value : Values]
    \cup [time : Times, code : {"SYN_REPORT"}, value : {0}]
    \cup [time : Times, code : OtherCodes, value : {1}]

\* The events a read with status Sync is seen to carry: one of each code.
SyncEvents == {e \in Events : e.time = <<0, 1000>> /\ e.value \in {0, 1}}

NoEvent == [time |-> <<0, 0>>, code |-> "NONE", value |-> 0]

\* Args: -m and -a are required, -c defaults to infinity, -o to 0.
DefaultCap == PosInf
DefaultOffset == Fin(0)
MkArgs(m, a, c, o) == [sens_mult |-> m, accel |-> a, cap |-> c, offset |-> o]
ArgsSet ==
    { MkArgs(Fin(Q \div 2), Fin(Q \div 4), DefaultCap, DefaultOffset),
      MkArgs(Fin(Q \div 2), Fin(0), Fin(2 * Q), DefaultOffset),
      MkArgs(Fin(2 * Q), Fin(Q \div 4), Fin(2 * Q), Fin(Q)),
      MkArgs(Fin(2 * Q), Fin(-Q), DefaultCap, DefaultOffset),
      MkArgs(Fin(Q), Fin(Q), Fin(Q \div 2), Fin(Q)),
      MkArgs(Fin(Q), Fin(-Q), Fin(2 * Q), Fin(2 * Q)) }

VARIABLES
    args,            \* the parsed command line
    x, y,            \* motion pending for the current frame
    x_accum, y_accum,\* fractional carry of the previous frame
    frame_last_sec, frame_last_us,  \* time of the last processed SYN_REPORT
    sync_flag,       \* "NORMAL" or "SYNC": the mode of the next read
    pc,              \* "loop", "exit2" (read failed) or "err" (write failed)
    last,            \* the latest read: the flag used, its status, its event
    written,         \* the write_event calls of the latest iteration, in order
    nreads,          \* number of reads so far
    call             \* an application of factor: its arguments and result

vars == <<args, x, y, x_accum, y_accum, frame_last_sec, frame_last_us,
          sync_flag, pc, last, written, nreads, call>>

core == <<x, y, x_accum, y_accum, frame_last_sec, frame_last_us>>

\* The accumulator, the carries and the clock as one value.
Acc ==
    [x |-> x, y |-> y, x_accum |-> x_accum, y_accum |-> y_accum,
     sec |-> frame_last_sec, us |-> frame_last_us]

\* No application of factor is being observed.
NoCall == [done |-> FALSE, speed |-> Fin(0), result |-> Fin(0)]

Init ==
    /\ args \in ArgsSet
    /\ x = Fin(0)
    /\ y = Fin(0)
    /\ x_accum = Fin(0)
    /\ y_accum = Fin(0)
    /\ frame_last_sec = 0
    /\ frame_last_us = 0
    /\ sync_flag = "NORMAL"
    /\ pc = "loop"
    /\ last = [flag |-> "NONE", status |-> "NONE", ev |-> NoEvent]
    /\ written = << >>
    /\ nreads = 0
    /\ call = NoCall

(***************************************************************************)
(* The match on event.event_code, as functions of the accumulator s.       *)
(***************************************************************************)
\* event.value as f64 + x_accum
AxisValue(value, accum) == FAdd(FromInt(value), accum)

\* OnRelX that adds the event to the pending value instead of replacing it.
OnRelXSum(s, ev) ==
    [s EXCEPT !.x = FAdd(s.x, AxisValue(ev.value, s.x_accum))]

\* REL_X => x = event.value as f64 + x_accum
OnRelX(s, ev) == [s EXCEPT !.x = AxisValue(ev.value, s.x_accum)]

\* REL_Y => y = event.value as f64 + y_accum
OnRelY(s, ev) == [s EXCEPT !.y = AxisValue(ev.value, s.y_accum)]

\* ChangeMs that takes the first SYN_REPORT's own time as the last time.
ChangeMsFirstZero(ev, last_sec, last_us) ==
    IF last_sec = 0 /\ last_us = 0 THEN Fin(0)
    ELSE FAdd(FMul(FSub(FromInt(ev.time[1]), FromInt(last_sec)),
                   FromInt(1000)),
              FDiv(FSub(FromInt(ev.time[2]), FromInt(last_us)),
                   FromInt(1000)))

\* Milliseconds between the event and the last processed SYN_REPORT.
ChangeMs(ev, last_sec, last_us) ==
    FAdd(FMul(FSub(FromInt(ev.time[1]), FromInt(last_sec)), FromInt(1000)),
         FDiv(FSub(FromInt(ev.time[2]), FromInt(last_us)), FromInt(1000)))

Dist(px, py) == FSqrt(FAdd(FMul(px, px), FMul(py, py)))

Sensitivity(a, s, ev) ==
    factor(a.sens_mult, a.accel, a.cap, a.offset,
           FDiv(Dist(s.x, s.y), ChangeMs(ev, s.sec, s.us)))

\* x *= sensitivity; y *= sensitivity
ScaleBy(s, sensitivity) ==
    [s EXCEPT !.x = FMul(s.x, sensitivity), !.y = FMul(s.y, sensitivity)]

\* The accumulator with both axes scaled for the SYN_REPORT ev.
Scaled(a, s, ev) == ScaleBy(s, Sensitivity(a, s, ev))

\* x.round() as i32
Rounded(scaled) == AsI32(FRound(scaled))

\* x - x_rounded as f64 (an infinity or a NaN minus any i32 is itself)
Carry(scaled) ==
    IF IsFin(scaled) THEN FSub(scaled, FromInt(Rounded(scaled))) ELSE scaled

SynthEvent(ev, code, value) ==
    [time |-> ev.time, code |-> code, value |-> value]

\* FrameEvents with the two synthetic events written in the other order.
FrameEventsYFirst(ev, sc) ==
    << SynthEvent(ev, "REL_Y", Rounded(sc.y)),
       SynthEvent(ev, "REL_X", Rounded(sc.x)),
       ev >>

\* FrameEvents that forgets to forward the SYN_REPORT itself.
FrameEventsDropSyn(ev, sc) ==
    << SynthEvent(ev, "REL_X", Rounded(sc.x)),
       SynthEvent(ev, "REL_Y", Rounded(sc.y)) >>

\* The three write_event calls of a SYN_REPORT, in program order, sc being
\* the accumulator with both axes scaled.
FrameEvents(ev, sc) ==
    << SynthEvent(ev, "REL_X", Rounded(sc.x)),
       SynthEvent(ev, "REL_Y", Rounded(sc.y)),
       ev >>

\* The write_event calls made out of evs when the fails-th one fails
\* (fails = 0: none fails): `?` returns from main at the first failure.
Issued(evs, fails) == IF fails = 0 THEN evs ELSE SubSeq(evs, 1, fails)

\* AfterWrites that ignores the error of a write and keeps looping.
AfterWritesRetry(fails) == "loop"

AfterWrites(fails) == IF fails = 0 THEN "loop" ELSE "err"

\* OnSynReport that forgets to reset the axes.
OnSynReportNoReset(sc, ev, fails) ==
    IF fails = 0
    THEN [sc EXCEPT !.x_accum = Carry(sc.x), !.y_accum = Carry(sc.y),
                    !.sec = ev.time[1], !.us = ev.time[2]]
    ELSE [sc EXCEPT !.x_accum = Carry(sc.x), !.y_accum = Carry(sc.y)]

\* The accumulator after a SYN_REPORT: the remainders are kept, then the
\* axes are reset and the clock is set. A failed write leaves main before
\* the reset and the clock update.
OnSynReport(sc, ev, fails) ==
    IF fails = 0
    THEN [x |-> Fin(0), y |-> Fin(0),
          x_accum |-> Carry(sc.x), y_accum |-> Carry(sc.y),
          sec |-> ev.time[1], us |-> ev.time[2]]
    ELSE [sc EXCEPT !.x_accum = Carry(sc.x), !.y_accum = Carry(sc.y)]

\* What a SYN_REPORT writes (out) and leaves behind (acc).
SynResult(sc, ev, fails) ==
    [out |-> Issued(FrameEvents(ev, sc), fails),
     acc |-> OnSynReport(sc, ev, fails)]

SynReport(a, s, ev, fails) == SynResult(Scaled(a, s, ev), ev, fails)

\* PassThrough writing a rebuilt event that loses the value.
PassThroughZeroed(ev) == << SynthEvent(ev, ev.code, 0) >>

\* _ => out.write_event(&event)?
PassThrough(ev) == << ev >>

(***************************************************************************)
(* One iteration of the loop of main: a read and all that follows from it. *)
(***************************************************************************)
\* source.next_event(sync_flag | BLOCKING) is called: the loop is running.
CanRead == pc = "loop" /\ nreads < MaxReads

\* The accumulator, the carries and the clock become s.
SetAcc(s) ==
    /\ x' = s.x
    /\ y' = s.y
    /\ x_accum' = s.x_accum
    /\ y_accum' = s.y_accum
    /\ frame_last_sec' = s.sec
    /\ frame_last_us' = s.us

\* The read returned Ok((status, ev)) with the flag that was set.
Returned(status, ev) ==
    /\ last' = [flag |-> sync_flag, status |-> status, ev |-> ev]
    /\ nreads' = nreads + 1

\* ReadSync that also drops the pending motion and the carries.
ReadSyncReset(ev) ==
    /\ CanRead
    /\ Returned("Sync", ev)
    /\ sync_flag' = "SYNC"
    /\ written' = << >>
    /\ SetAcc([Acc EXCEPT !.x = Fin(0), !.y = Fin(0),
                          !.x_accum = Fin(0), !.y_accum = Fin(0)])
    /\ UNCHANGED <<args, pc, call>>

\* ReadSync that treats the sync loss as fatal.
ReadSyncExit(ev) ==
    /\ CanRead
    /\ Returned("Sync", ev)
    /\ sync_flag' = "SYNC"
    /\ written' = << >>
    /\ pc' = "exit2"
    /\ UNCHANGED <<args, core, call>>

\* status == ReadStatus::Sync: warn, read in SYNC mode next, continue.
ReadSync(ev) ==
    /\ CanRead
    /\ Returned("Sync", ev)
    /\ sync_flag' = "SYNC"
    /\ written' = << >>
    /\ UNCHANGED <<args, core, pc, call>>

ReadRelX(ev) ==
    /\ CanRead
    /\ ev.code = "REL_X"
    /\ Returned("Success", ev)
    /\ sync_flag' = "NORMAL"
    /\ SetAcc(OnRelX(Acc, ev))
    /\ written' = << >>
    /\ UNCHANGED <<args, pc, call>>

ReadRelY(ev) ==
    /\ CanRead
    /\ ev.code = "REL_Y"
    /\ Returned("Success", ev)
    /\ sync_flag' = "NORMAL"
    /\ SetAcc(OnRelY(Acc, ev))
    /\ written' = << >>
    /\ UNCHANGED <<args, pc, call>>

ReadSynReport(ev, fails) ==
    /\ CanRead
    /\ ev.code = "SYN_REPORT"
    /\ Returned("Success", ev)
    /\ sync_flag' = "NORMAL"
    /\ LET r == SynReport(args, Acc, ev, fails)
       IN  SetAcc(r.acc) /\ written' = r.out
    /\ pc' = AfterWrites(fails)
    /\ UNCHANGED <<args, call>>

\* ReadOther that leaves sync_flag as it was.
ReadOtherKeepFlag(ev, fails) ==
    /\ CanRead
    /\ ev.code \in OtherCodes
    /\ Returned("Success", ev)
    /\ written' = Issued(PassThrough(ev), fails)
    /\ pc' = AfterWrites(fails)
    /\ UNCHANGED <<args, core, sync_flag, call>>

ReadOther(ev, fails) ==
    /\ CanRead
    /\ ev.code \in OtherCodes
    /\ Returned("Success", ev)
    /\ sync_flag' = "NORMAL"
    /\ written' = Issued(PassThrough(ev), fails)
    /\ pc' = AfterWrites(fails)
    /\ UNCHANGED <<args, core, call>>

\* Err(_): the read failed, std::process::exit(2).
ReadErr ==
    /\ CanRead
    /\ Returned("Err", NoEvent)
    /\ pc' = "exit2"
    /\ written' = << >>
    /\ UNCHANGED <<args, core, sync_flag, call>>

Next ==
    \/ \E ev \in SyncEvents : ReadSync(ev)
    \/ \E ev \in Events : ReadRelX(ev)
    \/ \E ev \in Events : ReadRelY(ev)
    \/ \E ev \in Events, fails \in 0 .. 3 : ReadSynReport(ev, fails)
    \/ \E ev \in Events, fails \in 0 .. 1 : ReadOther(ev, fails)
    \/ ReadErr

Spec == Init /\ [][Next]_vars

(***************************************************************************)
(* Properties of the loop (checked under Spec).                            *)
(***************************************************************************)
\* The latest read returned a SYN_REPORT with normal status.
TerminatorRead == last.status = "Success" /\ last.ev.code = "SYN_REPORT"

\* The latest read returned with normal status an event that is neither an
\* axis event nor a SYN_REPORT.
OtherRead ==
    /\ last.status = "Success"
    /\ last.ev.code \notin {"REL_X", "REL_Y", "SYN_REPORT"}

IsSynth(w, code, ev) == w.code = code /\ w.time = ev.time

\* w is: synthetic REL_X, synthetic REL_Y, the event ev itself.
IsFrame(w, ev) ==
    /\ Len(w) = 3
    /\ IsSynth(w[1], "REL_X", ev)
    /\ IsSynth(w[2], "REL_Y", ev)
    /\ w[3] = ev

\* w is a non-empty prefix of such a frame.
IsFramePrefix(w, ev) ==
    /\ Len(w) \in 1 .. 3
    /\ IsSynth(w[1], "REL_X", ev)
    /\ Len(w) >= 2 => IsSynth(w[2], "REL_Y", ev)
    /\ Len(w) = 3 => w[3] = ev

\* C1 as stated: every SYN_REPORT read with normal status makes exactly the
\* three writes REL_X, REL_Y, SYN_REPORT, the first two with its timestamp.
C1_Original == TerminatorRead => IsFrame(written, last.ev)

\* C1 amended: a SYN_REPORT read with normal status makes the writes REL_X,
\* REL_Y, SYN_REPORT in this order, the first two with its timestamp and
\* nothing else in between, up to the first write that fails: all three when
\* no write fails, and a failed write ends the program before the next one.
C1_Amended ==
    TerminatorRead =>
        /\ IsFramePrefix(written, last.ev)
        /\ pc = "loop" => IsFrame(written, last.ev)
        /\ Len(written) < 3 => pc = "err"

C1_Witness ==
    /\ TerminatorRead
    /\ pc = "loop"
    /\ IsFrame(written, last.ev)
    /\ written[1].value # 0
    /\ written[2].value = 0

\* C2: an event of another code read with normal status is written as it
\* is, and the accumulator, the carries and the clock stay as they were.
C2_PassThrough ==
    [][OtherRead' => (written' = << last'.ev >> /\ core' = core)]_vars

C2_Witness ==
    /\ OtherRead
    /\ written = << last.ev >>
    /\ x # Fin(0)
    /\ x_accum # Fin(0)
    /\ frame_last_us # 0

InHalfOpen(a) == IsFin(a) /\ -Q < 2 * a.v /\ 2 * a.v <= Q

\* C3: both carries are in (-0.5, 0.5] at all times.
C3_CarryBounded == InHalfOpen(x_accum) /\ InHalfOpen(y_accum)

\* The emitted value plus the new carry, as f64.
Recombined(value, accum) ==
    IF IsFin(accum) THEN FAdd(FromInt(value), accum) ELSE accum

\* value is an integer nearest to scaled.
IsNearest(value, scaled) ==
    IsFin(scaled) /\ 2 * Abs(scaled.v - value * Q) <= Q

\* C4: when a SYN_REPORT is processed, on each axis the emitted value plus
\* the new carry equals scale * pending, and the emitted value is the
\* integer nearest to scale * pending.
C4_Conservation ==
    [][(TerminatorRead' /\ pc' = "loop") =>
          LET sx == Scaled(args, Acc, last'.ev).x
              sy == Scaled(args, Acc, last'.ev).y
          IN  /\ FEq(Recombined(written'[1].value, x_accum'), sx)
              /\ FEq(Recombined(written'[2].value, y_accum'), sy)
              /\ IsNearest(written'[1].value, sx)
              /\ IsNearest(written'[2].value, sy)]_vars

\* C5: a read that returns sync-loss status sets the SYNC read mode, writes
\* nothing and leaves the accumulator, the carries and the clock alone.
C5_SyncLoss ==
    [][last'.status = "Sync" =>
          (sync_flag' = "SYNC" /\ written' = << >> /\ core' = core)]_vars

C5_Witness ==
    /\ last.status = "Sync"
    /\ last.flag = "SYNC"
    /\ sync_flag = "SYNC"
    /\ x_accum # Fin(0)
    /\ frame_last_us # 0

\* A frame: at most one REL_X, at most one REL_Y, then a SYN_REPORT (the
\* timestamp of an axis event is never read: one timestamp is enough).
OptEvents(code) ==
    {<< >>} \cup
    {<< e >> : e \in {d \in Events : /\ d.code = code
                                     /\ d.time = <<0, 1000>>
                                     /\ d.value = 1}}
Frames ==
    {fx \o fy \o << t >> :
        fx \in OptEvents("REL_X"), fy \in OptEvents("REL_Y"),
        t \in {d \in Events : d.code = "SYN_REPORT"}}

RECURSIVE AfterAxisEvents(_, _)
\* The accumulator after the axis events evs, read with normal status.
AfterAxisEvents(s, evs) ==
    IF evs = << >> THEN s
    ELSE LET e == Head(evs)
         IN  AfterAxisEvents(IF e.code = "REL_X" THEN OnRelX(s, e)
                             ELSE OnRelY(s, e), Tail(evs))

\* What the frame f writes and leaves behind when it starts from s.
FrameResult(a, s, f) ==
    LET b == AfterAxisEvents(s, SubSeq(f, 1, Len(f) - 1))
        t == f[Len(f)]
    IN  SynReport(a, b, t, 0)

\* A fresh accumulator that keeps the clock of s.
Fresh(s) ==
    [s EXCEPT !.x = Fin(0), !.y = Fin(0),
              !.x_accum = Fin(0), !.y_accum = Fin(0)]

\* C6 as stated: after a sync-loss read every frame writes and leaves what
\* it would with a fresh accumulator that has the same clock.
C6_Original ==
    last.status = "Sync" =>
        \A f \in Frames : FrameResult(args, Acc, f) = FrameResult(args, Fresh(Acc), f)

\* C6 amended: a sync-loss read followed by a frame writes and leaves what
\* that frame would without the sync-loss read: the pending motion and the
\* carries of before the sync loss are kept, not reset.
C6_Amended ==
    [][last'.status = "Sync" =>
          \A f \in Frames :
              FrameResult(args, Acc', f) = FrameResult(args, Acc, f)]_vars

C6_Witness ==
    /\ last.status = "Sync"
    /\ x_accum # Fin(0)
    /\ \E f \in Frames :
           FrameResult(args, Acc, f) # FrameResult(args, Fresh(Acc), f)

\* What a read of ev with normal status writes (out) and leaves behind
\* (acc) when it starts from s and the fails-th write fails.
Usual(a, s, ev, fails) ==
    IF ev.code = "REL_X" THEN [out |-> << >>, acc |-> OnRelX(s, ev)]
    ELSE IF ev.code = "REL_Y" THEN [out |-> << >>, acc |-> OnRelY(s, ev)]
    ELSE IF ev.code = "SYN_REPORT" THEN SynReport(a, s, ev, fails)
    ELSE [out |-> Issued(PassThrough(ev), fails), acc |-> s]

\* C11: a read that returns sync-loss status never ends the program (the
\* loop goes on to read again, in SYNC mode), and a normal-status read that
\* follows sync-loss reads is processed as any normal-status read is.
C11_SyncLossNotFatal ==
    [][/\ last'.status = "Sync" => (pc' = "loop" /\ sync_flag' = "SYNC")
       /\ (last.status = "Sync" /\ last'.status = "Success") =>
              \E fails \in 0 .. 3 :
                  LET u == Usual(args, Acc, last'.ev, fails)
                  IN  /\ Acc' = u.acc
                      /\ written' = u.out
                      /\ pc' = AfterWrites(fails)]_vars

C11_Witness ==
    /\ last.status = "Success"
    /\ last.flag = "SYNC"
    /\ last.ev.code = "SYN_REPORT"
    /\ pc = "loop"
    /\ Len(written) = 3
    /\ written[1].value # 0

\* The iteration that reads ev and whose fails-th write_event fails.
FailedWrite(ev, fails) ==
    \/ ReadSynReport(ev, fails)
    \/ fails = 1 /\ ReadOther(ev, fails)

\* C12: a failed read ends the loop with exit status 2 and a failed write
\* ends it with an error; nothing is read or written after the loop has
\* ended, and nothing else ends it.
C12_FatalNotRetried ==
    [][/\ pc = "loop"
       /\ last'.status = "Err" => (pc' = "exit2" /\ written' = << >>)
       /\ \A ev \in Events, fails \in 1 .. 3 :
              FailedWrite(ev, fails) => (pc' = "err" /\ Len(written') = fails)
       /\ pc' = "exit2" => last'.status = "Err"
       /\ pc' = "err" => \E ev \in Events, fails \in 1 .. 3 :
                             FailedWrite(ev, fails)]_vars

C12_Witness ==
    /\ pc = "err"
    /\ TerminatorRead
    /\ Len(written) = 2
    /\ nreads < MaxReads

\* The writes of w that are not axis events.
RECURSIVE NonAxis(_)
NonAxis(w) ==
    IF w = << >> THEN << >>
    ELSE IF Head(w).code \in {"REL_X", "REL_Y"} THEN NonAxis(Tail(w))
    ELSE << Head(w) >> \o NonAxis(Tail(w))

\* What the latest read contributes to the input with the axis events and
\* the reads that did not return normal status removed.
Forwarded(l) ==
    IF l.status = "Success" /\ l.ev.code \notin {"REL_X", "REL_Y"}
    THEN << l.ev >> ELSE << >>

\* C13 as stated, per read: the writes that follow a read, the synthetic
\* axis events removed, are the event read when it has normal status and
\* is no axis event, and nothing otherwise; an axis event writes nothing.
C13_Original ==
    [][/\ NonAxis(written') = Forwarded(last')
       /\ last'.ev.code \in {"REL_X", "REL_Y"} => written' = << >>]_vars

\* C13 amended: the same as long as no write fails. A failed write ends the
\* program: a SYN_REPORT whose first or second write fails is not written.
C13_Amended ==
    [][/\ pc' # "err" => NonAxis(written') = Forwarded(last')
       /\ pc' = "err" => NonAxis(written') \in {<< >>, Forwarded(last')}
       /\ last'.ev.code \in {"REL_X", "REL_Y"} => written' = << >>
       /\ (TerminatorRead' /\ pc' # "err") => IsFrame(written', last'.ev)]_vars

C13_Witness ==
    /\ TerminatorRead
    /\ pc = "loop"
    /\ NonAxis(written) = << last.ev >>
    /\ Len(written) = 3
    /\ last.flag = "NORMAL"
    /\ written[2].value # 0

\* C14: the first read is made in NORMAL mode, a read that follows a read
\* with sync-loss status in SYNC mode, and a read that follows a read with
\* normal status in NORMAL mode.
C14_ReadMode ==
    [][last'.flag = IF last.status = "Sync" THEN "SYNC" ELSE "NORMAL"]_vars

C14_Witness ==
    /\ last.flag = "SYNC"
    /\ last.status = "Success"
    /\ sync_flag = "NORMAL"
    /\ nreads = 3

\* The time between the SYN_REPORT just read and the clock before it.
Elapsed == ChangeMs(last'.ev, frame_last_sec, frame_last_us)

\* The scale of the SYN_REPORT just read.
ScaleUsed == Sensitivity(args, Acc, last'.ev)

\* C15: a SYN_REPORT with the timestamp of the previous one (elapsed time 0)
\* is scaled by exactly mult * cap, and neither the scaled values nor the
\* carries it leaves are infinite or NaN.
C15_ZeroElapsed ==
    [][(TerminatorRead' /\ Elapsed = Fin(0)) =>
          /\ FEq(ScaleUsed, FMul(args.sens_mult, args.cap))
          /\ IsFin(FMul(x, ScaleUsed)) /\ IsFin(FMul(y, ScaleUsed))
          /\ IsFin(x_accum') /\ IsFin(y_accum')]_vars

\* C16: a SYN_REPORT with a timestamp before the previous one (negative
\* elapsed time) is scaled by mult * cap.
C16_NegativeElapsed ==
    [][(TerminatorRead' /\ FLt(Elapsed, Fin(0))) =>
          FEq(ScaleUsed, FMul(args.sens_mult, args.cap))]_vars

\* No SYN_REPORT has been processed: the clock is as initialised (no event
\* of Times has the timestamp 0).
NoFrameYet == frame_last_sec = 0 /\ frame_last_us = 0

\* The timestamp of ev in milliseconds.
TimestampMs(ev) ==
    FAdd(FMul(FromInt(ev.time[1]), FromInt(1000)),
         FDiv(FromInt(ev.time[2]), FromInt(1000)))

\* The SYN_REPORT just read is emitted, and leaves the carries, that the
\* elapsed time ms gives.
FrameAsIfElapsed(ms) ==
    LET sens == factor(args.sens_mult, args.accel, args.cap, args.offset,
                       FDiv(Dist(x, y), ms))
        sx == FMul(x, sens)
        sy == FMul(y, sens)
    IN  /\ x_accum' = Carry(sx)
        /\ y_accum' = Carry(sy)
        /\ Len(written') >= 1 => written'[1].value = Rounded(sx)
        /\ Len(written') >= 2 => written'[2].value = Rounded(sy)

\* C17 as stated: the first SYN_REPORT is processed with elapsed time 0.
C17_Original ==
    [][(TerminatorRead' /\ NoFrameYet) => FrameAsIfElapsed(Fin(0))]_vars

\* C17 amended: the first SYN_REPORT is processed with the time elapsed
\* since the initial clock value 0, that is with its own timestamp in
\* milliseconds as the elapsed time.
C17_Amended ==
    [][(TerminatorRead' /\ NoFrameYet) =>
          FrameAsIfElapsed(TimestampMs(last'.ev))]_vars

C17_Witness ==
    /\ TerminatorRead
    /\ nreads = 2
    /\ pc = "loop"
    /\ written[1].value # 0
    /\ frame_last_us = last.ev.time[2]

\* The latest read returned an event of this code with normal status.
AxisRead(code) == last.status = "Success" /\ last.ev.code = code

\* C18: a REL_X (REL_Y) event sets the pending value of its axis to the
\* event's value plus the carry of that axis, whatever was pending, and
\* leaves the other axis, the carries and the clock as they were; the
\* SYN_REPORT scales the pending values.
C18_AxisOverwrites ==
    [][/\ AxisRead("REL_X")' =>
              /\ x' = FAdd(FromInt(last'.ev.value), x_accum)
              /\ <<y, x_accum, y_accum>>' = <<y, x_accum, y_accum>>
       /\ AxisRead("REL_Y")' =>
              /\ y' = FAdd(FromInt(last'.ev.value), y_accum)
              /\ <<x, x_accum, y_accum>>' = <<x, x_accum, y_accum>>
       /\ TerminatorRead' =>
              /\ x_accum' = Carry(FMul(x, ScaleUsed))
              /\ y_accum' = Carry(FMul(y, ScaleUsed))]_vars

C18_Witness ==
    /\ AxisRead("REL_X")
    /\ x_accum # Fin(0)
    /\ IsFin(x_accum)
    /\ x = FAdd(FromInt(last.ev.value), x_accum)
    /\ y = Fin(0)

C20_CarryDiscarded ==
    [][/\ (TerminatorRead' /\ x = Fin(0)) =>
              /\ x_accum' = Fin(0)
              /\ written' # << >> => written'[1].value = 0
       /\ (TerminatorRead' /\ y = Fin(0)) =>
              /\ y_accum' = Fin(0)
              /\ Len(written') >= 2 => written'[2].value = 0]_vars

(***************************************************************************)
(* The sensitivity curve on its own: factor applied to drawn arguments.    *)
(***************************************************************************)
FactorMults == {Fin(Q \div 2), Fin(Q), Fin(2 * Q)}
FactorAccels == {Fin(-Q), Fin(0), Fin(Q \div 100), Fin(Q)}
FactorCaps == {Fin(Q \div 2), Fin(Q), Fin(3 * Q), DefaultCap}
FactorOffsets == {Fin(-Q), DefaultOffset, Fin(5 * Q)}
FactorSpeeds ==
    {Fin(-Q), Fin(0), Fin(Q), Fin(5 * Q), Fin(105 * Q), Fin(1000 * Q),
     PosInf, NaN}

InitFactor ==
    /\ args \in [sens_mult : FactorMults, accel : FactorAccels,
                 cap : FactorCaps, offset : FactorOffsets]
    /\ call \in [done : {FALSE}, speed : FactorSpeeds, result : {Fin(0)}]
    /\ x = Fin(0)
    /\ y = Fin(0)
    /\ x_accum = Fin(0)
    /\ y_accum = Fin(0)
    /\ frame_last_sec = 0
    /\ frame_last_us = 0
    /\ sync_flag = "NORMAL"
    /\ pc = "loop"
    /\ last = [flag |-> "NONE", status |-> "NONE", ev |-> NoEvent]
    /\ written = << >>
    /\ nreads = 0

\* let sensitivity = factor(args.sens_mult, args.accel, args.cap,
\*                          args.offset, speed)
CallFactor ==
    /\ ~call.done
    /\ call' = [call EXCEPT
                  !.done = TRUE,
                  !.result = factor(args.sens_mult, args.accel, args.cap,
                                    args.offset, call.speed)]
    /\ UNCHANGED <<args, core, sync_flag, pc, last, written, nreads>>

NextFactor == CallFactor

SpecFactor == InitFactor /\ [][NextFactor]_vars

(***************************************************************************)
(* Properties of factor (checked under SpecFactor).                        *)
(***************************************************************************)
FactorOf(speed) ==
    factor(args.sens_mult, args.accel, args.cap, args.offset, speed)

\* The curve as the design states it, on step counts: mult below the
\* offset, mult * min(1 + accel * (speed - offset), cap) from it on.
RefFactor(m, a, c, o, s) ==
    IF s.v < o.v THEN m
    ELSE LET ramp == Q + RoundDiv(a.v * (s.v - o.v), Q)
             clamped == IF IsInf(c) \/ ramp <= c.v THEN ramp ELSE c.v
         IN  Fin(RoundDiv(m.v * clamped, Q))

Scenario == MkArgs(Fin(2 * Q), Fin(Q \div 100), Fin(3 * Q), Fin(5 * Q))

ScenarioFactor(speed) ==
    factor(Scenario.sens_mult, Scenario.accel, Scenario.cap, Scenario.offset,
           speed)

\* C7: for every finite speed, factor returns mult when speed < offset and
\* mult * min(1 + accel * (speed - offset), cap) otherwise; with mult=2,
\* accel=0.01, cap=3, offset=5 it returns 2, 2, 4, 6 at speeds 0, 5, 105, 1000.
C7_FactorIsReference ==
    /\ (call.done /\ IsFin(call.speed)) =>
           call.result = RefFactor(args.sens_mult, args.accel, args.cap,
                                   args.offset, call.speed)
    /\ ScenarioFactor(Fin(0)) = Fin(2 * Q)
    /\ ScenarioFactor(Fin(5 * Q)) = Fin(2 * Q)
    /\ ScenarioFactor(Fin(105 * Q)) = Fin(4 * Q)
    /\ ScenarioFactor(Fin(1000 * Q)) = Fin(6 * Q)

C7_Witness ==
    /\ call.done
    /\ args = Scenario
    /\ call.speed = Fin(105 * Q)
    /\ call.result = Fin(4 * Q)

\* C8 as stated: for every slope accel, factor is non-decreasing in speed on
\* speed >= offset.
C8_Original ==
    call.done =>
        \A s2 \in FactorSpeeds :
            (FLe(args.offset, call.speed) /\ FLe(call.speed, s2)) =>
                FLe(call.result, FactorOf(s2))

\* C8 amended: on speed >= offset factor is non-decreasing in speed when
\* accel >= 0, and non-increasing in speed when accel < 0.
C8_Amended ==
    call.done =>
        \A s2 \in FactorSpeeds :
            (FLe(args.offset, call.speed) /\ FLe(call.speed, s2)) =>
                /\ args.accel.v >= 0 => FLe(call.result, FactorOf(s2))
                /\ args.accel.v < 0 => FLe(FactorOf(s2), call.result)

C8_Witness ==
    /\ call.done
    /\ args.accel.v > 0
    /\ FLe(args.offset, call.speed)
    /\ \E s2 \in FactorSpeeds :
           FLt(call.speed, s2) /\ FLt(call.result, FactorOf(s2))

\* C9: for positive mult and cap, factor never exceeds mult * cap, the flat
\* region speed < offset included.
C9_Original == call.done => FLe(call.result, FMul(args.sens_mult, args.cap))

\* C10 as stated: factor equals mult at speed == offset.
C10_Original ==
    (call.done /\ FEq(call.speed, args.offset)) =>
        FEq(call.result, args.sens_mult)

\* C10 amended: at speed == offset factor equals mult * min(1, cap), which
\* is mult exactly when cap >= 1.
C10_Amended ==
    (call.done /\ FEq(call.speed, args.offset)) =>
        /\ FEq(call.result, FMul(args.sens_mult, FMin(Fin(Q), args.cap)))
        /\ FLe(Fin(Q), args.cap) <=> FEq(call.result, args.sens_mult)

C10_Witness ==
    /\ call.done
    /\ FEq(call.speed, args.offset)
    /\ args.cap = Fin(3 * Q)
    /\ call.result = args.sens_mult

====
